---- MODULE Spec2Model ----
(***************************************************************************)
(* DiskWiper (src/DiskWiper.cpp): the pattern tables, FillBlock, the       *)
(* report log and the pass loop of DiskWiper::main, as a state machine.    *)
(*                                                                         *)
(* Bytes are the integers 0..255.  The overwrite block is a function on    *)
(* 0..blockSize-1, the target a sequence whose element i+1 is the byte at  *)
(* offset i.  The block size of the program is 98304 = 3*1024*32; the      *)
(* model keeps it a multiple of three, 3 * BlockUnits, and scales the      *)
(* target sizes with it.                                                   *)
(***************************************************************************)
EXTENDS Integers, Sequences, FiniteSets

\* ------------------------------------------------------------------ bounds
BlockUnits == 1
MaxSize == 7
MaxFailWrite == 2
MaxCap == 6
MaxPatLen == 3

\* --------------------------------------------------------- program values
E_SUCCESS == 0
E_FAILURE == 1
E_CONTINUE == 2

\* static const int blockSize = 98304 (3*1024*32), scaled to 3 * BlockUnits
blockSize == 3 * BlockUnits

\* a byte of the stack buffer that no store has defined yet
Undef == -1

\* the bytes /dev/random delivers in the model, and the bytes a target holds
\* before the session
RandBytes == {90, 165}
InitBytes == {0, 229}
\* the bytes FillBlock is tried on outside the catalogue
PatBytes == {146, 73, 36}

DeviceName == "dev"

\* -------------------------------------------------------- pattern tables
\* one initialiser {data, datalen, random, _reserved} of an OverWriteRule
Rule(data, datalen, random) ==
    [data |-> data, datalen |-> datalen, random |-> random, _reserved |-> 0]

r_Gutmann == <<
    Rule(<<>>, 0, 1),
    Rule(<<>>, 0, 1),
    Rule(<<>>, 0, 1),
    Rule(<<>>, 0, 1),
    Rule(<<85>>, 1, 0),
    Rule(<<170>>, 1, 0),
    Rule(<<146, 73, 36>>, 3, 0),
    Rule(<<73, 36, 146>>, 3, 0),
    Rule(<<36, 146, 73>>, 3, 0),
    Rule(<<0>>, 1, 0),
    Rule(<<17>>, 1, 0),
    Rule(<<34>>, 1, 0),
    Rule(<<51>>, 1, 0),
    Rule(<<68>>, 1, 0),
    Rule(<<85>>, 1, 0),
    Rule(<<102>>, 1, 0),
    Rule(<<119>>, 1, 0),
    Rule(<<136>>, 1, 0),
    Rule(<<153>>, 1, 0),
    Rule(<<170>>, 1, 0),
    Rule(<<187>>, 1, 0),
    Rule(<<204>>, 1, 0),
    Rule(<<221>>, 1, 0),
    Rule(<<238>>, 1, 0),
    Rule(<<255>>, 1, 0),
    Rule(<<146, 73, 36>>, 3, 0),
    Rule(<<73, 36, 146>>, 3, 0),
    Rule(<<36, 146, 73>>, 3, 0),
    Rule(<<109, 182, 219>>, 3, 0),
    Rule(<<182, 219, 109>>, 3, 0),
    Rule(<<219, 146, 73>>, 3, 0),
    Rule(<<>>, 0, 1),
    Rule(<<>>, 0, 1),
    Rule(<<>>, 0, 1),
    Rule(<<>>, 0, 1) >>

r_Fast == << Rule(<<0>>, 1, 0) >>

r_Gost == << Rule(<<0>>, 1, 0), Rule(<<>>, 0, 1) >>

r_UsDod5220_22_M == << Rule(<<0>>, 1, 0), Rule(<<255>>, 1, 0), Rule(<<>>, 0, 1) >>

r_VSITR == <<
    Rule(<<0>>, 1, 0),
    Rule(<<255>>, 1, 0),
    Rule(<<0>>, 1, 0),
    Rule(<<255>>, 1, 0),
    Rule(<<0>>, 1, 0),
    Rule(<<255>>, 1, 0),
    Rule(<<170>>, 1, 0) >>

\* sizeof(x)/sizeof(OverWriteRule)
COUNT_PASSES(x) == Len(x)

FastPolicy == [name |-> "Fast", passes |-> COUNT_PASSES(r_Fast), rules |-> r_Fast]
GostPolicy ==
    [name |-> "Russian GOST P50739-95", passes |-> COUNT_PASSES(r_Gost), rules |-> r_Gost]
PeterGutmannPolicy ==
    [name |-> "Peter Gutmann", passes |-> COUNT_PASSES(r_Gutmann), rules |-> r_Gutmann]
DOD522022MPolicy ==
    [name |-> "US DOD 5220.22-M", passes |-> COUNT_PASSES(r_UsDod5220_22_M),
     rules |-> r_UsDod5220_22_M]
VsitrPolicy ==
    [name |-> "German VSITR", passes |-> COUNT_PASSES(r_VSITR), rules |-> r_VSITR]

\* wPolicies[i] of the source is wPolicies[i + 1] here
wPolicies == << FastPolicy, GostPolicy, DOD522022MPolicy, VsitrPolicy, PeterGutmannPolicy >>
N_POLICIES == Len(wPolicies)

\* ------------------------------------------------------------------ state
VARIABLES
    _ValidPolicySel,  \* index of the selected policy, 0 .. N_POLICIES - 1
    _silent,          \* ReportLog::_silent  (-q)
    _enabled,         \* ReportLog::_enabled (-r <file>)
    kind,             \* "blk": block device, "file": regular file
    openOK,           \* whether open(device, O_RDONLY) of GetDeviceSize succeeds
    disk,             \* the bytes of the target
    pc,               \* position in DiskWiper::main
    size,             \* unsigned int size
    step,             \* the pass index of the for loop
    rules,            \* the rule of the current pass
    owBlock,          \* char owBlock[blockSize]
    overrun,          \* indices >= capacity that FillBlock has stored to
    cap,              \* capacity of the block FillBlock works on
    cs,               \* counter of the full block loop
    cb,               \* counter of the single byte loop
    devopen,          \* devfd is open
    pos,              \* put position of devfd
    bad,              \* devfd has failed (badbit/failbit set)
    log,              \* the events handed to ReportLog::Log, in order
    cout,             \* the lines Log printed on standard output
    fd,               \* the lines Log appended to the report file
    ret,              \* the value main returns
    wlog,             \* the write calls of the current pass, in order
    nfill,            \* FillBlock calls of the current pass
    nw                \* write calls of the session, counted up to MaxFailWrite

vars == << _ValidPolicySel, _silent, _enabled, kind, openOK, disk, pc, size, step,
           rules, owBlock, overrun, cap, cs, cb, devopen, pos, bad, log, cout, fd,
           ret, wlog, nfill, nw >>

Policy == wPolicies[_ValidPolicySel + 1]

\* ------------------------------------------------------------- ReportLog
Ev(e, n, s) == [ev |-> e, n |-> n, s |-> s]

\* ReportLog::Log called once per event of evs: nothing is produced when the
\* log is silent and has no file; otherwise standard output gets the line
\* unless silent, the file gets it when enabled.
Log(evs) ==
    /\ log' = log \o evs
    /\ cout' = IF _silent = TRUE /\ _enabled = FALSE THEN cout
               ELSE IF _silent = FALSE THEN cout \o evs ELSE cout
    /\ fd' = IF _silent = TRUE /\ _enabled = FALSE THEN fd
             ELSE IF _enabled THEN fd \o evs ELSE fd

\* -------------------------------------------------------------------- OS
\* OS::GetRandomData: sz bytes read from /dev/random into the buffer.  The
\* blocks the model lets the device deliver: any byte a of RandBytes at the
\* even indices and any byte b at the odd ones.
GetRandomData(buffer, sz) ==
    { [ k \in 0 .. sz - 1 |-> IF k % 2 = 0 THEN a ELSE b ] : a, b \in RandBytes }

\* OS::GetDeviceSize: 0 when the device cannot be opened, else the length of
\* the device (block count * block size) or of the file (st_size).  The
\* result is an unsigned int; the lengths of the model are far below 2^32.
GetDeviceSize == IF openOK THEN Len(disk) ELSE 0

\* ------------------------------------------------------------- FillBlock
\* the inner loop storing data[0] at every index
FillStores_FirstByte(r, bs) ==
    { << b + dl, r.data[1] >> :
        b \in { x \in 0 .. bs - 1 : x % r.datalen = 0 }, dl \in 0 .. r.datalen - 1 }

\* The stores of the deterministic branch: for ( b = 0; b < bs; b += datalen )
\* for ( dl = 0; dl < datalen; dl++ ) owBlock[b+dl] = data[dl].  Each pair is
\* <<index stored to, byte stored>>; the inner loop is not cut at bs.
FillStores(r, bs) ==
    { << b + dl, r.data[dl + 1] >> :
        b \in { x \in 0 .. bs - 1 : x % r.datalen = 0 }, dl \in 0 .. r.datalen - 1 }

\* The indices at or past the end of the block that FillBlock stores to
FillOverrun(r, bs) ==
    IF r.random = 0 THEN { st[1] : st \in { t \in FillStores(r, bs) : t[1] >= bs } }
    ELSE {}

\* DiskWiper::FillBlock: the contents the block can have afterwards
FillBlock(block, r, bs) ==
    IF r.random = 0
    THEN { [ k \in 0 .. bs - 1 |->
               IF \E t \in FillStores(r, bs) : t[1] = k
               THEN (CHOOSE t \in FillStores(r, bs) : t[1] = k)[2]
               ELSE block[k] ] }
    ELSE GetRandomData(block, bs)

\* ------------------------------------------------------------------ devfd
\* the target after n bytes of the block are put at offset off
Put(d, off, block, n) ==
    [ i \in 1 .. (IF off + n > Len(d) THEN off + n ELSE Len(d)) |->
        IF i > off /\ i <= off + n THEN block[i - 1 - off] ELSE d[i] ]

\* the numbers of bytes one devfd.write of n bytes can transfer: none once
\* the stream has failed, else all of them, or fewer when the write fails
Transfers(n) ==
    IF bad THEN {0}
    ELSE {n} \cup (IF nw < MaxFailWrite THEN 0 .. n - 1 ELSE {})

\* devfd.write((const char*)block, n), k bytes of it reaching the target
Write(block, n, k, fills) ==
    /\ disk' = IF bad THEN disk ELSE Put(disk, pos, block, k)
    /\ pos' = IF bad THEN pos ELSE pos + k
    /\ bad' = (bad \/ k < n)
    /\ wlog' = Append(wlog, [off |-> pos, len |-> n, put |-> k, fill |-> fills,
                             data |-> [ i \in 0 .. k - 1 |-> block[i] ]])
    /\ nw' = IF nw < MaxFailWrite THEN nw + 1 ELSE nw

\* --------------------------------------------------------- DiskWiper::main
\* the size check left out
SizeInvalid_Never(sz) == FALSE

\* if ( size == 0 )
SizeInvalid(sz) == sz = 0

\* the bound size/blockSize of the full block loop
FullBlocks(sz) == sz \div blockSize

\* the bound size%blockSize of the single byte loop
Remainder(sz) == sz % blockSize

\* the refill inside the write loops left out
Refill_Never(r) == FALSE

\* if ( rules->random ) FillBlock(owBlock,rules);
Refill(r) == r.random # 0

\* a pass index that advances by two
NextStep_Skip(s) == s + 2

\* step++ of the for loop
NextStep(s) == s + 1

\* the state main starts from once ParseOption has returned E_CONTINUE
Init ==
    /\ _ValidPolicySel \in 0 .. N_POLICIES - 1
    /\ _silent \in BOOLEAN
    /\ _enabled \in BOOLEAN
    /\ kind \in {"blk", "file"}
    /\ openOK \in BOOLEAN
    /\ disk \in { [ i \in 1 .. n |-> b ] : n \in 0 .. MaxSize, b \in InitBytes }
    /\ pc = "start"
    /\ size = 0
    /\ step = 0
    /\ rules = Policy.rules[1]
    /\ owBlock = [ k \in 0 .. blockSize - 1 |-> Undef ]
    /\ overrun = {}
    /\ cap = blockSize
    /\ cs = 0
    /\ cb = 0
    /\ devopen = FALSE
    /\ pos = 0
    /\ bad = FALSE
    /\ log = << >>
    /\ cout = << >>
    /\ fd = << >>
    /\ ret = E_CONTINUE
    /\ wlog = << >>
    /\ nfill = 0
    /\ nw = 0

\* lines 557-561: the header of the report
SessionStart ==
    /\ pc = "start"
    /\ Log(<< Ev("session start", 0, ""),
              Ev("policy", 0, Policy.name),
              Ev("passes", Policy.passes, ""),
              Ev("target device", 0, DeviceName),
              Ev("device", 0, DeviceName) >>)
    /\ pc' = "getsize"
    /\ UNCHANGED << _ValidPolicySel, _silent, _enabled, kind, openOK, disk, size, step,
                    rules, owBlock, overrun, cap, cs, cb, devopen, pos, bad, ret, wlog,
                    nfill, nw >>

\* lines 563-573: the size of the target, the abort on size 0, else devfd is
\* opened for writing, which empties a regular file
ResolveSize ==
    /\ pc = "getsize"
    /\ size' = GetDeviceSize
    /\ IF SizeInvalid(size')
       THEN /\ Log(<< Ev("size", size', ""), Ev("invalid size", 0, ""),
                      Ev("session aborted", 0, "") >>)
            /\ ret' = E_FAILURE
            /\ pc' = "aborted"
            /\ UNCHANGED << disk, devopen, pos >>
       ELSE /\ Log(<< Ev("size", size', "") >>)
            /\ disk' = IF kind = "file" THEN << >> ELSE disk
            /\ devopen' = TRUE
            /\ pos' = 0
            /\ pc' = "for"
            /\ UNCHANGED ret
    /\ UNCHANGED << _ValidPolicySel, _silent, _enabled, kind, openOK, step, rules,
                    owBlock, overrun, cap, cs, cb, bad, wlog, nfill, nw >>

\* lines 575-588: the head of one pass: the rule, seekp(0), the two log
\* lines, the first FillBlock
PassBegin ==
    /\ pc = "for"
    /\ step < Policy.passes
    /\ rules' = Policy.rules[step + 1]
    /\ pos' = IF bad THEN pos ELSE 0
    /\ Log(<< IF rules'.random = 0 THEN Ev("building", step, "")
              ELSE Ev("scheduling", step, ""),
              Ev("step start", step, "") >>)
    /\ owBlock' \in FillBlock(owBlock, rules', blockSize)
    /\ overrun' = overrun \cup FillOverrun(rules', blockSize)
    /\ nfill' = 1
    /\ wlog' = << >>
    /\ cs' = 1
    /\ pc' = "blocks"
    /\ UNCHANGED << _ValidPolicySel, _silent, _enabled, kind, openOK, disk, size, step,
                    cap, cb, devopen, bad, ret, nw >>

\* lines 590-595: one turn of the full block loop
BlockWrite ==
    /\ pc = "blocks"
    /\ cs < FullBlocks(size)
    /\ \E nb \in (IF Refill(rules) THEN FillBlock(owBlock, rules, blockSize)
                  ELSE {owBlock}),
          k \in Transfers(blockSize) :
          /\ owBlock' = nb
          /\ nfill' = IF Refill(rules) THEN nfill + 1 ELSE nfill
          /\ Write(nb, blockSize, k, nfill')
    /\ overrun' = IF Refill(rules) THEN overrun \cup FillOverrun(rules, blockSize)
                  ELSE overrun
    /\ cs' = cs + 1
    /\ UNCHANGED << _ValidPolicySel, _silent, _enabled, kind, openOK, pc, size, step,
                    rules, cap, cb, devopen, log, cout, fd, ret >>

\* line 590 false, line 597: the full block loop ends, cb = 0
BlocksDone ==
    /\ pc = "blocks"
    /\ ~ (cs < FullBlocks(size))
    /\ cb' = 0
    /\ pc' = "bytes"
    /\ UNCHANGED << _ValidPolicySel, _silent, _enabled, kind, openOK, disk, size, step,
                    rules, owBlock, overrun, cap, cs, devopen, pos, bad, log, cout, fd,
                    ret, wlog, nfill, nw >>

\* lines 597-601: one turn of the single byte loop
ByteWrite ==
    /\ pc = "bytes"
    /\ cb < Remainder(size)
    /\ \E nb \in (IF Refill(rules) THEN FillBlock(owBlock, rules, blockSize)
                  ELSE {owBlock}),
          k \in Transfers(1) :
          /\ owBlock' = nb
          /\ nfill' = IF Refill(rules) THEN nfill + 1 ELSE nfill
          /\ Write(nb, 1, k, nfill')
    /\ overrun' = IF Refill(rules) THEN overrun \cup FillOverrun(rules, blockSize)
                  ELSE overrun
    /\ cb' = cb + 1
    /\ UNCHANGED << _ValidPolicySel, _silent, _enabled, kind, openOK, pc, size, step,
                    rules, cap, cs, devopen, log, cout, fd, ret >>

\* line 597 false, lines 603-604: the pass is logged done, step++
PassDone ==
    /\ pc = "bytes"
    /\ ~ (cb < Remainder(size))
    /\ Log(<< Ev("step done", step, "") >>)
    /\ step' = NextStep(step)
    /\ pc' = "for"
    /\ UNCHANGED << _ValidPolicySel, _silent, _enabled, kind, openOK, disk, size, rules,
                    owBlock, overrun, cap, cs, cb, devopen, pos, bad, ret, wlog, nfill,
                    nw >>

\* line 575 false, lines 606-611: devfd is closed, the session logged done
SessionDone ==
    /\ pc = "for"
    /\ ~ (step < Policy.passes)
    /\ devopen' = FALSE
    /\ Log(<< Ev("session done", 0, ""), Ev("separator", 0, "") >>)
    /\ ret' = E_SUCCESS
    /\ pc' = "done"
    /\ UNCHANGED << _ValidPolicySel, _silent, _enabled, kind, openOK, disk, size, step,
                    rules, owBlock, overrun, cap, cs, cb, pos, bad, wlog, nfill, nw >>

Next ==
    \/ SessionStart
    \/ ResolveSize
    \/ PassBegin
    \/ BlockWrite
    \/ BlocksDone
    \/ ByteWrite
    \/ PassDone
    \/ SessionDone

Spec == Init /\ [][Next]_vars

\* ------------------------------------------------- FillBlock on its own
\* the rules FillBlock is applied to: every pattern of 1 .. MaxPatLen bytes
\* over PatBytes, and the random rule
FillRules ==
    { Rule(p, Len(p), 0) :
        p \in UNION { [ (1 .. l) -> PatBytes ] : l \in 1 .. MaxPatLen } }
    \cup { Rule(<< >>, 0, 1) }

\* a block of any capacity 1 .. MaxCap, not yet defined, and any rule
FillInit ==
    /\ cap \in 1 .. MaxCap
    /\ rules \in FillRules
    /\ owBlock = [ k \in 0 .. cap - 1 |-> Undef ]
    /\ overrun = {}
    /\ pc = "fill"
    /\ _ValidPolicySel = 0
    /\ _silent = FALSE
    /\ _enabled = FALSE
    /\ kind = "blk"
    /\ openOK = FALSE
    /\ disk = << >>
    /\ size = 0
    /\ step = 0
    /\ cs = 0
    /\ cb = 0
    /\ devopen = FALSE
    /\ pos = 0
    /\ bad = FALSE
    /\ log = << >>
    /\ cout = << >>
    /\ fd = << >>
    /\ ret = E_CONTINUE
    /\ wlog = << >>
    /\ nfill = 0
    /\ nw = 0

\* FillBlock(owBlock, rules) on a block of capacity cap
FillCall ==
    /\ pc = "fill"
    /\ owBlock' \in FillBlock(owBlock, rules, cap)
    /\ overrun' = FillOverrun(rules, cap)
    /\ nfill' = nfill + 1
    /\ pc' = "filled"
    /\ UNCHANGED << _ValidPolicySel, _silent, _enabled, kind, openOK, disk, size, step,
                    rules, cap, cs, cb, devopen, pos, bad, log, cout, fd, ret, wlog,
                    nw >>

FillNext == FillCall

FillSpec == FillInit /\ [][FillNext]_vars

\* ================================================================ claims
\* the pass whose writes wlog holds has run both its loops to the end
PassFinished == pc \in {"for", "done"} /\ step > 0

\* the write calls of the pass that cover offset o
Covering(o) == { i \in 1 .. Len(wlog) : wlog[i].off <= o /\ o < wlog[i].off + wlog[i].put }

RECURSIVE BytesPut(_)
BytesPut(w) == IF w = << >> THEN 0 ELSE w[1].put + BytesPut(Tail(w))

\* C1: a pass that ends with no write failure has written exactly size
\* bytes: every offset in [0, size) once, the cursor ending at size.
C1_PassWritesWholeTarget ==
    (PassFinished /\ ~ bad /\ size > 0) =>
        /\ BytesPut(wlog) = size
        /\ \A o \in 0 .. size - 1 : Cardinality(Covering(o)) = 1
        /\ pos = size

\* C5: a pass that ends with no write failure has made floor(size/blockSize)
\* writes of blockSize bytes followed by size mod blockSize writes of 1 byte.
C5_BlockAndByteWriteCounts ==
    (PassFinished /\ ~ bad /\ size > 0) =>
        /\ Len(wlog) = (size \div blockSize) + (size % blockSize)
        /\ \A i \in 1 .. Len(wlog) :
               wlog[i].len = IF i <= size \div blockSize THEN blockSize ELSE 1
        /\ pos = size

\* C3: the Fast policy run to completion leaves every byte of the target at
\* offsets [0, size) equal to 0x00.
C3_FastLeavesZeroes ==
    (pc = "done" /\ Policy.name = "Fast" /\ ~ bad) =>
        /\ Len(disk) = size
        /\ \A i \in 1 .. size : disk[i] = 0

\* the log holds an event of kind e for pass n
Logged(e, n) == \E i \in 1 .. Len(log) : log[i].ev = e /\ log[i].n = n

\* C2: once a write to the target has failed in pass i, that write is the
\* last one issued, no later pass is started, neither "step i done" nor
\* "session done" is logged and main does not return success.
C2_WriteFailureAborts ==
    bad =>
        /\ Len(wlog) > 0
        /\ wlog[Len(wlog)].put < wlog[Len(wlog)].len
        /\ \A i \in 1 .. Len(wlog) - 1 : wlog[i].put = wlog[i].len
        /\ ~ Logged("step done", step)
        /\ ~ Logged("session done", 0)
        /\ pc # "done"
        /\ ret # E_SUCCESS

\* the report of a session whose target has size 0
AbortedLog ==
    << Ev("session start", 0, ""), Ev("policy", 0, Policy.name),
       Ev("passes", Policy.passes, ""), Ev("target device", 0, DeviceName),
       Ev("device", 0, DeviceName), Ev("size", 0, ""), Ev("invalid size", 0, ""),
       Ev("session aborted", 0, "") >>

\* C4: when the size of the target resolves to 0 the session is aborted
\* straight away: the abort is logged, main returns E_FAILURE, no pass is
\* started, devfd is never opened and no write is issued.
C4_ZeroSizeAborts ==
    (pc \notin {"start", "getsize"} /\ size = 0) =>
        /\ pc = "aborted"
        /\ ret = E_FAILURE
        /\ log = AbortedLog
        /\ (~ _silent => cout = AbortedLog)
        /\ (_enabled => fd = AbortedLog)
        /\ \A n \in 0 .. Policy.passes : ~ Logged("step start", n)
        /\ ~ devopen
        /\ wlog = << >>
        /\ nw = 0
        /\ nfill = 0

C4_Witness ==
    pc = "aborted" /\ size = 0 /\ ret = E_FAILURE /\ Len(disk) > 0 /\ disk[1] # 0

\* the Gutmann table as published: passes 1-4 and 32-35 random, passes 5-31
\* the fixed patterns
GutmannPublished ==
    << << >>, << >>, << >>, << >>,
       <<85>>, <<170>>, <<146, 73, 36>>, <<73, 36, 146>>, <<36, 146, 73>>,
       <<0>>, <<17>>, <<34>>, <<51>>, <<68>>, <<85>>, <<102>>, <<119>>, <<136>>,
       <<153>>, <<170>>, <<187>>, <<204>>, <<221>>, <<238>>, <<255>>,
       <<146, 73, 36>>, <<73, 36, 146>>, <<36, 146, 73>>,
       <<109, 182, 219>>, <<182, 219, 109>>, <<219, 109, 182>>,
       << >>, << >>, << >>, << >> >>

\* C6: a session of the Gutmann policy has 35 passes and the rule of each
\* pass is the entry of the published table: random where the table is
\* random, else the published pattern.
C6_GutmannAsPublished ==
    (Policy.name = "Peter Gutmann" /\ pc \in {"blocks", "bytes"}) =>
        /\ Policy.passes = Len(GutmannPublished)
        /\ (rules.random # 0) = (GutmannPublished[step + 1] = << >>)
        /\ (rules.random = 0 =>
               /\ rules.data = GutmannPublished[step + 1]
               /\ rules.datalen = Len(GutmannPublished[step + 1]))

\* the block holds the pattern of r repeated from index 0 and no undefined byte
Tiled(block, r, bs) ==
    \A k \in 0 .. bs - 1 : block[k] = r.data[(k % r.datalen) + 1] /\ block[k] # Undef

SessionBlockNotOverrun == pc \notin {"fill", "filled"} => overrun = {}

OrderedEvents ==
    SelectSeq(log, LAMBDA e : e.ev \notin {"building", "scheduling", "separator"})

EventKind(e) == IF e.ev \in {"target device", "device"} THEN "target" ELSE e.ev

HeaderKinds == << "session start", "policy", "passes", "target", "size" >>

\* the events of p are in the order session start, policy, passes, target,
\* size, then "invalid size" and the abort, or step start / step done per
\* pass in index order and at last session done or session aborted; hd is
\* the header
InOrder(p, hd) ==
    \A i \in 1 .. Len(p) :
        LET k == EventKind(p[i]) IN
        /\ (i <= Len(hd) => k = hd[i])
        /\ (i > Len(hd) =>
               k \in {"invalid size", "session aborted", "step start", "step done",
                      "session done"})
        /\ (k = "invalid size" => i = Len(hd) + 1)
        /\ (k = "step start" =>
               \/ i = Len(hd) + 1 /\ p[i].n = 0
               \/ i > Len(hd) + 1 /\ p[i - 1].ev = "step done" /\ p[i - 1].n = p[i].n - 1)
        /\ (k = "step done" =>
               i > Len(hd) + 1 /\ p[i - 1].ev = "step start" /\ p[i - 1].n = p[i].n)
        /\ (k = "session done" =>
               i > Len(hd) + 1 /\ p[i - 1].ev = "step done"
                               /\ p[i - 1].n = Policy.passes - 1)
        /\ (k \in {"session done", "session aborted"} => i = Len(p))

\* C8: the events of the log come in the fixed order, each header event
\* (session start, policy name, pass count, target identifier, target size)
\* once, each step start followed by the step done of the same pass.
C8_LogOrder == InOrder(OrderedEvents, HeaderKinds)

\* what the log of the program does satisfy: the same order, the target
\* identifier being logged twice
LogOrderAsWritten ==
    InOrder(OrderedEvents,
            << "session start", "policy", "passes", "target", "target", "size" >>)

\* the pass indices of the events of kind e in the log, in order
RECURSIVE PassesLogged(_, _)
PassesLogged(l, e) ==
    IF l = << >> THEN << >>
    ELSE (IF l[1].ev = e THEN << l[1].n >> ELSE << >>) \o PassesLogged(Tail(l), e)

\* C9: a session on a target of size > 0 runs the passes in index order
\* 0, 1, .., passes - 1: a pass starts only from the head of the for loop,
\* with the rule of its index and, while no write has failed, the cursor at
\* offset 0; the index changes only by one, when both loops of the pass
\* have ended; the session is done only after pass passes - 1, each pass
\* having started once and ended once.
C9_PassesInOrder ==
    [][ /\ (step' # step =>
               /\ step' = step + 1
               /\ pc = "bytes" /\ ~ (cs < size \div blockSize)
               /\ ~ (cb < size % blockSize)
               /\ pc' = "for")
        /\ ((pc' = "for" /\ pc # "for") =>
               \/ pc = "getsize" /\ step' = 0 /\ size' > 0
               \/ pc = "bytes" /\ step' = step + 1)
        /\ ((pc' = "blocks" /\ pc # "blocks") =>
               /\ pc = "for"
               /\ step' = step
               /\ step < Policy.passes
               /\ rules' = Policy.rules[step + 1]
               /\ wlog' = << >>
               /\ (~ bad => pos' = 0))
        /\ ((pc' = "bytes" /\ pc # "bytes") => pc = "blocks" /\ step' = step)
        /\ ((pc' = "done" /\ pc # "done") =>
               /\ pc = "for"
               /\ step = Policy.passes
               /\ PassesLogged(log, "step start") = [ i \in 1 .. Policy.passes |-> i - 1 ]
               /\ PassesLogged(log, "step done") = [ i \in 1 .. Policy.passes |-> i - 1 ])
      ]_vars

C9_Witness ==
    /\ pc = "done"
    /\ Policy.passes = 7
    /\ size = MaxSize
    /\ ~ bad
    /\ ret = E_SUCCESS

\* C10: in a pass of a random rule every write call has a block that
\* GetRandomData delivered after the write call before it, so no fill is
\* written twice; in a pass of a deterministic rule FillBlock is called
\* once, before the first write, and every write call has that block.
C10_RefillPerWrite ==
    (pc \in {"blocks", "bytes"} \/ PassFinished) =>
        IF rules.random # 0
        THEN /\ \A i \in 1 .. Len(wlog) :
                    /\ wlog[i].fill > (IF i = 1 THEN 0 ELSE wlog[i - 1].fill)
                    /\ wlog[i].fill <= nfill
                    /\ \A k \in 0 .. wlog[i].put - 1 : wlog[i].data[k] \in RandBytes
             /\ nfill > Len(wlog)
        ELSE /\ nfill = 1
             /\ Tiled(owBlock, rules, blockSize)
             /\ \A i \in 1 .. Len(wlog) :
                    /\ wlog[i].fill = 1
                    /\ \A k \in 0 .. wlog[i].put - 1 : wlog[i].data[k] = owBlock[k]

C10_Witness ==
    /\ PassFinished
    /\ rules.random # 0
    /\ Len(wlog) = 2
    /\ wlog[1].len = blockSize
    /\ wlog[1].put = blockSize
    /\ wlog[2].len = 1
    /\ wlog[2].put = 1
    /\ wlog[1].data[0] # wlog[2].data[0]

====
